---- MODULE Spec2Model ----
(***************************************************************************)
(* Model of app.py: the hybrid recommender hybrid_recommend, the sidebar   *)
(* genre filter it reads, and the "Show Recommendations" button.           *)
(*                                                                         *)
(* Numbers.  The program computes in float64.  Raw scores are modelled as  *)
(* small integers and every derived score as an exact fraction             *)
(* [num, den] with den > 0; the float NaN (the value of 0/0) is the record *)
(* NaN below, with den = 0.  Rounding is not modelled.                     *)
(* Catalog positions are the labels 0..2 of the DataFrame's RangeIndex.    *)
(*                                                                         *)
(* Two things the source leaves open are chosen in Init and then fixed:    *)
(* similarity_type, the type similarity.pkl unpickles to (pd.Series over   *)
(* an ndarray demands equal lengths, over a Series it reindexes by label), *)
(* and ties_reversed, the order in which sort_values' default quicksort,   *)
(* which is not stable, leaves equal scores (index order or its reverse).  *)
(***************************************************************************)
EXTENDS Integers, Sequences, FiniteSets, TLC

\* Raw collaborative-filtering predictions range over 0..MaxScore.
MaxScore == 1

\* Raw similarity values, in tenths (1.0, 0.3, 0.0).
SimValues == {0, 3, 10}

\* movies = load_movies("movies2.csv"): one row per catalog position.
movies ==
  0 :> [id |-> 11, title |-> "A", genres_list |-> {"Action"}] @@
  1 :> [id |-> 12, title |-> "B", genres_list |-> {"Drama"}] @@
  2 :> [id |-> 13, title |-> "C", genres_list |-> {"Action"}]

Pos == DOMAIN movies

\* all_genres of the sidebar: every genre of the catalog.
all_genres == UNION {movies[i].genres_list : i \in Pos}

\* The arguments the calls are made with.
KnownUsers == {1}
UserArgs == KnownUsers \cup {2}
TitleArgs == {movies[i].title : i \in Pos} \cup {"Z"}
TopNArgs == {0, 1, 10}
Frac(n, d) == [num |-> n, den |-> d]
AlphaArgs == {Frac(0, 1), Frac(1, 10), Frac(1, 1), Frac(11, 10)}

\* What the button passes for top_n and alpha.
AppCall(u, t) == [user_id |-> u, movie_title |-> t, top_n |-> 10, alpha |-> Frac(1, 10)]

\* The calls made directly: every combination of arguments within the contract,
\* and the button's call with one argument outside it (an unknown user, a title
\* of no movie, top_n = 0, alpha = 1.1).
Queries ==
  LET Titles == {movies[i].title : i \in Pos}
      Apps == {AppCall(u, t) : u \in KnownUsers, t \in Titles}
  IN  [user_id : KnownUsers, movie_title : Titles,
       top_n : {n \in TopNArgs : n > 0},
       alpha : {a \in AlphaArgs : a.num <= a.den}]
      \cup {[d EXCEPT !.user_id = u] : d \in Apps, u \in UserArgs}
      \cup {[d EXCEPT !.movie_title = t] : d \in Apps, t \in TitleArgs}
      \cup {[d EXCEPT !.top_n = n] : d \in Apps, n \in TopNArgs}
      \cup {[d EXCEPT !.alpha = a] : d \in Apps, a \in AlphaArgs}

VARIABLES
  preds_df,         \* user id -> (column label -> raw CF prediction)
  similarity,       \* position -> (position -> raw similarity)
  similarity_type,  \* what similarity.pkl unpickles to: "ndarray" or "DataFrame"
  ties_reversed,    \* how the build's unstable argsort leaves equal keys
  selected_genres,  \* the sidebar multiselect, a module-level global
  last_call,        \* <<>> or <<the explicit arguments of the last call>>
  recs              \* what the last call of hybrid_recommend produced

vars == <<preds_df, similarity, similarity_type, ties_reversed,
          selected_genres, last_call, recs>>

----------------------------------------------------------------------------
\* Arithmetic on fractions and NaN.

NaN == Frac(0, 0)
IsNaN(q) == q.den = 0
Zero == Frac(0, 1)

MinOf(S) == CHOOSE x \in S : \A y \in S : x <= y
MaxOf(S) == CHOOSE x \in S : \A y \in S : x >= y

\* q > r and q = r on fractions with positive denominators.
FracGt(q, r) == q.num * r.den > r.num * q.den
FracEq(q, r) == q.num * r.den = r.num * q.den

\* (v - v.min()) / (v.max() - v.min()), elementwise; 0/0 is NaN.
MinMaxNorm(v) ==
  LET lo == MinOf({v[l] : l \in DOMAIN v})
      hi == MaxOf({v[l] : l \in DOMAIN v})
  IN  [l \in DOMAIN v |->
         IF hi = lo THEN NaN ELSE Frac(v[l] - lo, hi - lo)]

\* alpha * cf + (1 - alpha) * content; NaN absorbs, also when its weight is 0.
Blend(alpha, cf, content) ==
  IF IsNaN(cf) \/ IsNaN(content) THEN NaN
  ELSE Frac(alpha.num * cf.num * content.den
              + (alpha.den - alpha.num) * content.num * cf.den,
            alpha.den * cf.den * content.den)

----------------------------------------------------------------------------
\* hybrid_recommend, step by step.

\* The genre filter left out: every row is kept.
filtered_movies_unfiltered(movies_df, genres) == DOMAIN movies_df

\* The rows kept by the genre filter (all rows when nothing is selected).
filtered_movies(movies_df, genres) ==
  IF genres # {}
  THEN {i \in DOMAIN movies_df : movies_df[i].genres_list \cap genres # {}}
  ELSE DOMAIN movies_df

\* movie_title in filtered_movies['title'].values
title_in(movie_title, movies_df, filt) ==
  \E i \in filt : movies_df[i].title = movie_title

\* cf_norm: the user's whole row normalized, then reindexed to the filtered
\* rows with fill_value=0.
cf_norm_of(row, filt) ==
  LET n == MinMaxNorm(row)
  IN  [l \in filt |-> IF l \in DOMAIN row THEN n[l] ELSE Zero]

\* filtered_movies.index[filtered_movies['title'] == movie_title][0]
first_idx(movie_title, movies_df, filt) ==
  MinOf({i \in filt : movies_df[i].title = movie_title})

\* Series.sort_values(ascending=False): a is placed before b.  NaN goes last,
\* NaNs keep their index order; equal keys are left as the argsort leaves them.
placed_before(a, b, score, reversed) ==
  IF IsNaN(score[a]) THEN IsNaN(score[b]) /\ a < b
  ELSE \/ IsNaN(score[b])
       \/ FracGt(score[a], score[b])
       \/ /\ FracEq(score[a], score[b])
          /\ IF reversed THEN a > b ELSE a < b

sort_values_desc(score, reversed) ==
  LET D == DOMAIN score
      rank(l) == Cardinality({m \in D : placed_before(m, l, score, reversed)})
  IN  [k \in 1..Cardinality(D) |-> CHOOSE l \in D : rank(l) = k - 1]

\* .head(n): the first n entries, or all but the last -n when n < 0.
head(s, n) ==
  LET k == IF n >= 0 THEN (IF n < Len(s) THEN n ELSE Len(s))
           ELSE (IF Len(s) + n > 0 THEN Len(s) + n ELSE 0)
  IN  SubSeq(s, 1, k)

NoRecs == [kind |-> "None", rows |-> <<>>]
DataFrame(rows) == [kind |-> "DataFrame", rows |-> rows]
Raised(exc) == [kind |-> exc, rows |-> <<>>]

hybrid_recommend(user_id, movie_title, movies_df, preds, sim, top_n, alpha) ==
  LET filt == filtered_movies(movies_df, selected_genres)
  IN
  IF ~title_in(movie_title, movies_df, filt) THEN DataFrame(<<>>)
  ELSE IF user_id \notin DOMAIN preds THEN Raised("KeyError")
  ELSE
    LET cf_norm == cf_norm_of(preds[user_id], filt)
        idx == first_idx(movie_title, movies_df, filt)
        whole == MinMaxNorm(sim[idx])
    IN
    IF similarity_type = "ndarray" /\ Cardinality(DOMAIN whole) # Cardinality(filt)
    THEN Raised("ValueError")
    ELSE
      LET content_norm == [l \in filt |-> whole[l]]
          hybrid_scores == [l \in filt |-> Blend(alpha, cf_norm[l], content_norm[l])]
          top_idx == head(sort_values_desc(hybrid_scores, ties_reversed), top_n)
      IN  DataFrame([k \in 1..Len(top_idx) |->
                       [idx |-> top_idx[k], hybrid_score |-> hybrid_scores[top_idx[k]]]])

----------------------------------------------------------------------------
\* The state machine.

Scores == 0..MaxScore
Pairs == {p \in Pos \X Pos : p[1] < p[2]}
SymMatrix(u) ==
  [i \in Pos |-> [j \in Pos |->
     IF i = j THEN MaxOf(SimValues)
     ELSE IF i < j THEN u[<<i, j>>] ELSE u[<<j, i>>]]]

\* The columns of preds_df: every catalog position, or all but the last.
ColumnSets == {Pos, Pos \ {MaxOf(Pos)}}

Init ==
  /\ \E cols \in ColumnSets : preds_df \in [KnownUsers -> [cols -> Scores]]
  /\ \E u \in [Pairs -> SimValues] : similarity = SymMatrix(u)
  /\ similarity_type \in {"ndarray", "DataFrame"}
  /\ ties_reversed \in BOOLEAN
  /\ selected_genres = {}
  /\ last_call = <<>>
  /\ recs = NoRecs

Data == <<preds_df, similarity, similarity_type, ties_reversed>>

\* st.multiselect("Filter by genres:", all_genres).  Changing a widget reruns
\* the script with the button unpressed, so the page shows no recommendations.
SelectGenres ==
  \E g \in SUBSET all_genres :
    /\ g # selected_genres
    /\ selected_genres' = g
    /\ last_call' = <<>>
    /\ recs' = NoRecs
    /\ UNCHANGED Data

Call(user_id, movie_title, top_n, alpha) ==
  /\ last_call' = <<[user_id |-> user_id, movie_title |-> movie_title,
                     top_n |-> top_n, alpha |-> alpha]>>
  /\ recs' = hybrid_recommend(user_id, movie_title, movies, preds_df,
                              similarity, top_n, alpha)
  /\ UNCHANGED <<Data, selected_genres>>

\* st.selectbox("Select User:") and st.selectbox("Search Movie:"): changing
\* either reruns the script with the button unpressed.  The selected values are
\* read when the button is pressed.
SelectUserOrMovie ==
  /\ last_call # <<>>
  /\ last_call' = <<>>
  /\ recs' = NoRecs
  /\ UNCHANGED <<Data, selected_genres>>

\* The button: the selectboxes offer the known users and the catalog titles,
\* and the call is made with top_n=10, alpha=0.1.
ShowRecommendations ==
  /\ last_call = <<>>
  /\ \E u \in DOMAIN preds_df, i \in Pos :
       LET q == AppCall(u, movies[i].title)
       IN  Call(q.user_id, q.movie_title, q.top_n, q.alpha)

\* hybrid_recommend called directly, once on a freshly run script.
Recommend ==
  /\ last_call = <<>>
  /\ \E q \in Queries : Call(q.user_id, q.movie_title, q.top_n, q.alpha)

Next == SelectGenres \/ SelectUserOrMovie \/ ShowRecommendations \/ Recommend

Spec == Init /\ [][Next]_vars

----------------------------------------------------------------------------
\* The vocabulary of the claims.

Called == last_call # <<>>
Args == last_call[1]
Returned == recs.kind = "DataFrame"
KnownUser == Args.user_id \in DOMAIN preds_df

\* CandidateSet: the catalog rows whose genre set intersects the filter, or the
\* whole catalog when the filter is empty.
CandidateSet ==
  IF selected_genres = {} THEN Pos
  ELSE {i \in Pos : \E g \in selected_genres : g \in movies[i].genres_list}
SeedInCandidates == \E i \in CandidateSet : movies[i].title = Args.movie_title
Seed == MinOf({i \in CandidateSet : movies[i].title = Args.movie_title})

RowIdx == {recs.rows[k].idx : k \in 1..Len(recs.rows)}
IdxSeq(r) == [k \in 1..Len(r.rows) |-> r.rows[k].idx]

\* C1.  A call with a known user whose seed title is the title of no movie of
\* CandidateSet returns an empty table, and raises nothing.
C1_NoMatchIsEmpty ==
  (Called /\ KnownUser /\ ~SeedInCandidates) => recs = DataFrame(<<>>)

\* The seed is a catalog title that the genre filter excluded.
C1_Witness ==
  /\ Called /\ KnownUser /\ ~SeedInCandidates
  /\ selected_genres # {}
  /\ \E i \in Pos : movies[i].title = Args.movie_title
  /\ recs = DataFrame(<<>>)

\* C2.  A call whose seed is in CandidateSet and whose user is no key of the CF
\* table yields the typed outcome UnknownUser: no table, no raised exception.
C2_UnknownUserTyped ==
  (Called /\ ~KnownUser /\ SeedInCandidates) => recs.kind = "UnknownUser"

\* A vector all of whose entries are equal, and a normalized vector of zeros.
IsConstant(v) == \A l, m \in DOMAIN v : v[l] = v[m]
AllZeros(n) == \A l \in DOMAIN n : ~IsNaN(n[l]) /\ n[l].num = 0

\* C3.  Each vector the call normalizes (the user's CF row, the seed's
\* similarity row) that is constant normalizes to zeros, never to NaN.
C3_ConstantNormalizesToZeros ==
  (Called /\ KnownUser /\ SeedInCandidates) =>
    \A v \in {preds_df[Args.user_id], similarity[Seed]} :
      IsConstant(v) => AllZeros(MinMaxNorm(v))

\* C4.  A call with a known user, top_n > 0 and the seed in CandidateSet returns
\* exactly min(top_n, |CandidateSet|) rows, all of CandidateSet, none twice.
C4_ExactlyTopN ==
  (Called /\ KnownUser /\ Args.top_n > 0 /\ SeedInCandidates) =>
    /\ Returned
    /\ Len(recs.rows) = IF Args.top_n < Cardinality(CandidateSet)
                        THEN Args.top_n ELSE Cardinality(CandidateSet)
    /\ RowIdx \subseteq CandidateSet
    /\ Cardinality(RowIdx) = Len(recs.rows)

\* Row r comes before row s in descending score order with ties in catalog order.
StablyBefore(r, s) ==
  \/ FracGt(r.hybrid_score, s.hybrid_score)
  \/ FracEq(r.hybrid_score, s.hybrid_score) /\ r.idx < s.idx

\* C5.  The returned rows are in descending order of hybrid score, rows of equal
\* score in catalog order, and the same order decides which rows top_n cuts off.
\* (Rows whose score is NaN are left out of the comparison.)
C5_StableDescending ==
  (Called /\ Returned) =>
    LET all == hybrid_recommend(Args.user_id, Args.movie_title, movies, preds_df,
                                similarity, Cardinality(Pos), Args.alpha).rows
        Num(rows) == {rows[k] : k \in {j \in 1..Len(rows) : ~IsNaN(rows[j].hybrid_score)}}
    IN  /\ \A j, k \in 1..Len(recs.rows) :
             (j < k /\ recs.rows[j] \in Num(recs.rows) /\ recs.rows[k] \in Num(recs.rows))
               => StablyBefore(recs.rows[j], recs.rows[k])
        /\ \A r \in Num(recs.rows), s \in Num(all) :
             s.idx \notin RowIdx => StablyBefore(r, s)

\* The normalizer and the two score vectors as the specification defines them:
\* restricted (aligned) to CandidateSet first, then min-max scaled, a constant
\* vector scaled to zeros.
SpecNormalize(v) ==
  LET lo == MinOf({v[l] : l \in DOMAIN v})
      hi == MaxOf({v[l] : l \in DOMAIN v})
  IN  [l \in DOMAIN v |-> IF hi = lo THEN Zero ELSE Frac(v[l] - lo, hi - lo)]
SpecCfNorm ==
  LET row == preds_df[Args.user_id]
  IN  SpecNormalize([l \in CandidateSet |-> IF l \in DOMAIN row THEN row[l] ELSE 0])
SpecContentNorm == SpecNormalize([l \in CandidateSet |-> similarity[Seed][l]])

\* C6.  With alpha = 0 the returned ranking is the ranking by content_norm
\* alone, with alpha = 1 the ranking by cf_norm alone.
C6_PureRankings ==
  (Called /\ Returned /\ KnownUser /\ SeedInCandidates) =>
    /\ Args.alpha = Frac(0, 1) =>
         IdxSeq(recs) = head(sort_values_desc(SpecContentNorm, ties_reversed), Args.top_n)
    /\ Args.alpha = Frac(1, 1) =>
         IdxSeq(recs) = head(sort_values_desc(SpecCfNorm, ties_reversed), Args.top_n)

\* C7.  What hybrid_recommend returns for given arguments does not change while
\* the data store is unchanged, whatever else changes in the process.
C7_FunctionOfArguments ==
  [][\A q \in Queries :
       hybrid_recommend(q.user_id, q.movie_title, movies, preds_df, similarity,
                        q.top_n, q.alpha)'
       = hybrid_recommend(q.user_id, q.movie_title, movies, preds_df, similarity,
                          q.top_n, q.alpha)]_vars

\* C8.  A call with top_n <= 0 or alpha outside [0,1] is rejected with
\* InvalidInput: it returns no table, empty or not.
C8_InvalidInputRejected ==
  (Called /\ (Args.top_n <= 0 \/ Args.alpha.num < 0 \/ Args.alpha.num > Args.alpha.den))
    => recs.kind = "InvalidInput"

\* In the table r, c is ranked ahead of d: c is returned, and d after it or not at all.
Ahead(r, c, d) ==
  /\ \E k \in 1..Len(r.rows) : r.rows[k].idx = c
  /\ \A k \in 1..Len(r.rows) :
       r.rows[k].idx = d => \E j \in 1..(k - 1) : r.rows[j].idx = c

\* C9.  For 0 < alpha <= 1: raising the raw CF score of one candidate c, all
\* else fixed, leaves c ahead of every candidate it was ahead of.
C9_Monotone ==
  (Called /\ Returned /\ KnownUser /\ SeedInCandidates /\ Args.alpha.num > 0
     /\ Args.alpha.num <= Args.alpha.den) =>
    \A c \in CandidateSet \cap DOMAIN preds_df[Args.user_id] :
      \A x \in Scores :
        x > preds_df[Args.user_id][c] =>
          LET after == hybrid_recommend(Args.user_id, Args.movie_title, movies,
                         [preds_df EXCEPT ![Args.user_id][c] = x], similarity,
                         Args.top_n, Args.alpha)
          IN  \A d \in CandidateSet \ {c} : Ahead(recs, c, d) => Ahead(after, c, d)

\* C10.  Each returned hybrid score is alpha * cf_norm + (1 - alpha) * content_norm
\* with both vectors restricted to CandidateSet before they are normalized.
\* (Rows whose score is NaN are left out of the comparison.)
C10_RestrictThenNormalize ==
  (Called /\ Returned /\ KnownUser /\ SeedInCandidates) =>
    \A k \in 1..Len(recs.rows) :
      LET r == recs.rows[k]
      IN  ~IsNaN(r.hybrid_score) =>
            FracEq(r.hybrid_score,
                   Blend(Args.alpha, SpecCfNorm[r.idx], SpecContentNorm[r.idx]))
====
